---- MODULE Spec2Model ----
(***************************************************************************)
(* Model of the SMTP protocol engine of mysmtpd.c: the per-connection      *)
(* session struct (smtp_state), the command handlers do_helo, do_rset,     *)
(* do_mail, do_rcpt, do_data, do_noop, do_vrfy, do_quit, and the dispatch  *)
(* loop of handle_client.                                                  *)
(*                                                                         *)
(* C strings are sequences of one-character strings, so that the prefix    *)
(* tests, the length arithmetic and the concatenations of the handlers are *)
(* computed as the code computes them.                                     *)
(***************************************************************************)
EXTENDS Integers, Sequences, FiniteSets, TLC

VARIABLES
    ms,         \* the smtp_state struct: state, the three buffers, words
    pc,         \* where handle_client is: "cmd", "data", "closed", "crashed"
    stream,     \* the line reader's stream: "open", "eof", "err"
    pre,        \* value of ms before the last step
    step,       \* kind of the last step
    out,        \* what the last step did, in program order
    store,      \* what the last step handed to save_user_mail
    datalines,  \* stripped body lines read so far in the current DATA phase
    accepted,   \* paths of the RCPT commands answered 250 in the transaction
                \* that is open, or that the last step closed
    sent        \* whether the writes of the last step reached the client

vars == <<ms, pc, stream, pre, step, out, store, datalines, accepted, sent>>

(***************************************************************************)
(* Bounds of the model.                                                    *)
(***************************************************************************)
MaxRcpts == 2        \* recipients accepted in one transaction
MaxBodyLines == 2    \* body lines read in one DATA phase

(***************************************************************************)
(* Strings.                                                                *)
(***************************************************************************)
LowerCase == <<"a","b","c","d","e","f","g","h","i","j","k","l","m",
               "n","o","p","q","r","s","t","u","v","w","x","y","z">>
UpperCase == <<"A","B","C","D","E","F","G","H","I","J","K","L","M",
               "N","O","P","Q","R","S","T","U","V","W","X","Y","Z">>

UpperOf ==
    [c \in {LowerCase[i] : i \in 1..26} |->
        UpperCase[CHOOSE i \in 1..26 : LowerCase[i] = c]]

toupper(c) == IF c \in DOMAIN UpperOf THEN UpperOf[c] ELSE c

\* isspace() in the C locale
isspace(c) == c \in {" ", "\t", "\n", "\r"}

\* strcasecmp(a, b): 0 when the two strings are equal up to letter case
strcasecmp(a, b) ==
    IF Len(a) = Len(b) /\ \A i \in 1..Len(a) : toupper(a[i]) = toupper(b[i])
    THEN 0 ELSE 1

\* strncasecmp(a, b, n) for a b of length n: 0 when a starts with b up to case
strncasecmp(a, b, n) ==
    IF Len(a) >= n /\ Len(b) >= n
       /\ \A i \in 1..n : toupper(a[i]) = toupper(b[i])
    THEN 0 ELSE 1

CRLF == <<"\r", "\n">>

S_FROM == <<"F","R","O","M",":","<">>
S_TO   == <<"T","O",":","<">>
S_QUIT == <<"Q","U","I","T">>
S_HELO == <<"H","E","L","O">>
S_EHLO == <<"E","H","L","O">>
S_MAIL == <<"M","A","I","L">>
S_RCPT == <<"R","C","P","T">>
S_DATA == <<"D","A","T","A">>
S_RSET == <<"R","S","E","T">>
S_NOOP == <<"N","O","O","P">>
S_VRFY == <<"V","R","F","Y">>
S_EXPN == <<"E","X","P","N">>
S_HELP == <<"H","E","L","P">>

(***************************************************************************)
(* The session struct.                                                     *)
(***************************************************************************)
State == {"Init", "Executed_Helo", "Mail_transaction_open",
          "Recipient_provided", "Data_input", "Data_input_done"}

\* A user_list_t is a sequence of addresses; the NULL list is the empty one.
NULL == <<>>
\* mail_data_buffer is a char*: NULL, or a string (which is never empty).
NULLSTR == <<"NULL">>
\* A buffer field handle_client has not assigned yet (lines 473-477).
UNINIT == <<<<"UNINIT">>>>
UNINITSTR == <<"UNINIT">>

\* events recorded in out
Reply(code) == [ev |-> "reply", code |-> code]
Event(name) == [ev |-> name, code |-> 0]
\* a reply whose text carries an address (lines 312, 459, 464)
ReplyText(code, text) == [ev |-> "reply", code |-> code, text |-> text]
\* a read of recvbuf[len - 1] with len = 0 (lines 361, 486, 500)
OOB == Event("read_before_recvbuf")

\* What a handler did: the struct it leaves, its events, what it handed to the
\* mail store, its return value, and where control is afterwards: "ret" (the
\* handler returned), "data" (do_data is blocked in its read loop), "crashed".
Result(m, o, s, r, at) == [ms |-> m, out |-> o, store |-> s, ret |-> r, at |-> at]

\* is_valid_user() of mailuser.h: the mailboxes of the user directory
Users == {<<"a">>, <<"b">>}
is_valid_user(path) == path \in Users

\* user_list_create() and user_list_add() of mailuser.h
user_list_create == NULL
user_list_add(list, user) == Append(list, user)

\* clear_buffers forgetting the mail data buffer
clear_buffers_keep_body(m) ==
    [m EXCEPT !.reverse_path_buffer = NULL,
              !.forward_path_buffer = NULL]

\* clear_buffers forgetting the forward-path buffer
clear_buffers_keep_forward(m) ==
    [m EXCEPT !.reverse_path_buffer = NULL,
              !.mail_data_buffer = NULLSTR]

clear_buffers(m) ==
    [m EXCEPT !.reverse_path_buffer = NULL,
              !.forward_path_buffer = NULL,
              !.mail_data_buffer = NULLSTR]

syntax_error(m) == Reply(501)

\* do_quit returning like the other handlers
do_quit_returns_1(m) == Result(m, <<Reply(221)>>, <<>>, 1, "ret")

do_quit(m) == Result(m, <<Reply(221)>>, <<>>, -1, "ret")

\* do_helo testing the state before the argument count
do_helo_state_first(m) ==
    IF m.state # "Init"
    THEN Result(m, <<Reply(503)>>, <<>>, 1, "ret")
    ELSE IF Len(m.words) # 2
    THEN Result(m, <<Reply(501)>>, <<>>, 1, "ret")
    ELSE Result([m EXCEPT !.state = "Executed_Helo",
                          !.reverse_path_buffer = NULL,
                          !.forward_path_buffer = NULL,
                          !.mail_data_buffer = NULLSTR],
                <<Event("state"), Reply(250), Event("null")>>, <<>>, 0, "ret")

\* do_helo without its state test
do_helo_any_state(m) ==
    IF Len(m.words) # 2
    THEN Result(m, <<Reply(501)>>, <<>>, 1, "ret")
    ELSE Result([m EXCEPT !.state = "Executed_Helo",
                          !.reverse_path_buffer = NULL,
                          !.forward_path_buffer = NULL,
                          !.mail_data_buffer = NULLSTR],
                <<Event("state"), Reply(250), Event("null")>>, <<>>, 0, "ret")

do_helo(m) ==
    IF Len(m.words) # 2
    THEN Result(m, <<Reply(501)>>, <<>>, 1, "ret")
    ELSE IF m.state # "Init"
    THEN Result(m, <<Reply(503)>>, <<>>, 1, "ret")
    ELSE Result([m EXCEPT !.state = "Executed_Helo",
                          !.reverse_path_buffer = NULL,
                          !.forward_path_buffer = NULL,
                          !.mail_data_buffer = NULLSTR],
                <<Event("state"), Reply(250), Event("null")>>, <<>>, 0, "ret")

\* do_rset leaving the buffers as they are
do_rset_keeps_buffers(m) ==
    IF Len(m.words) # 1
    THEN Result(m, <<Reply(501)>>, <<>>, 1, "ret")
    ELSE IF m.state # "Init"
    THEN Result([m EXCEPT !.state = "Executed_Helo"],
                <<Event("state"), Reply(250)>>, <<>>, 1, "ret")
    ELSE Result(m, <<Reply(250)>>, <<>>, 1, "ret")

\* do_rset without its test of Init
do_rset_always_clears(m) ==
    IF Len(m.words) # 1
    THEN Result(m, <<Reply(501)>>, <<>>, 1, "ret")
    ELSE Result([clear_buffers(m) EXCEPT !.state = "Executed_Helo"],
                <<Event("clear"), Event("state"), Reply(250)>>, <<>>, 1, "ret")

do_rset(m) ==
    IF Len(m.words) # 1
    THEN Result(m, <<Reply(501)>>, <<>>, 1, "ret")
    ELSE IF m.state # "Init"
    THEN Result([clear_buffers(m) EXCEPT !.state = "Executed_Helo"],
                <<Event("clear"), Event("state"), Reply(250)>>, <<>>, 1, "ret")
    ELSE Result(m, <<Reply(250)>>, <<>>, 1, "ret")

\* the last character of a word (words are never empty)
LastChar(w) == w[Len(w)]

\* the state test of do_mail letting MAIL through inside a transaction
mail_state_ok_lax(m) == m.state # "Init"

\* the state test of do_mail (line 218)
mail_state_ok(m) == m.state = "Executed_Helo" \/ m.state = "Data_input_done"

\* the reverse path cut one character too long
mail_path_off_by_one(w) ==
    LET strlength == Len(w) - 6
    IN SubSeq(w, 7, 6 + strlength)

\* the reverse path cut out of words[1] (lines 227-231)
mail_path(w) ==
    LET strlength == Len(w) - 7
    IN SubSeq(w, 7, 6 + strlength)

do_mail(m) ==
    IF Len(m.words) # 2
    THEN Result(m, <<syntax_error(m)>>, <<>>, 1, "ret")
    ELSE IF strncasecmp(m.words[2], S_FROM, 6) # 0 \/ LastChar(m.words[2]) # ">"
    THEN Result(m, <<syntax_error(m)>>, <<>>, 1, "ret")
    ELSE IF ~mail_state_ok(m)
    THEN Result(m, <<Reply(503)>>, <<>>, 1, "ret")
    ELSE LET reverse_path == mail_path(m.words[2])
             c == clear_buffers(m)
             l == IF c.reverse_path_buffer = NULL
                  THEN user_list_create ELSE c.reverse_path_buffer
         IN Result([c EXCEPT !.reverse_path_buffer = user_list_add(l, reverse_path),
                             !.state = "Mail_transaction_open"],
                   <<Event("clear"), Event("add"), Reply(250), Event("state")>>,
                   <<>>, 0, "ret")

\* the forward path cut one character too long
rcpt_path_off_by_one(w) ==
    LET strlength == Len(w) - 4
    IN SubSeq(w, 5, 4 + strlength)

\* the forward path cut out of words[1] (lines 290-294)
rcpt_path(w) ==
    LET strlength == Len(w) - 5
    IN SubSeq(w, 5, 4 + strlength)

\* a recipient already in the buffer is not added again
rcpt_add_once(list, forward_path) ==
    IF \E i \in 1..Len(list) : list[i] = forward_path
    THEN list
    ELSE user_list_add(IF list = NULL THEN user_list_create ELSE list, forward_path)

\* a valid recipient is appended to the forward-path buffer (lines 300-305)
rcpt_add(list, forward_path) ==
    user_list_add(IF list = NULL THEN user_list_create ELSE list, forward_path)

\* a rejected recipient still advances the state
rcpt_reject_advances(m) ==
    Result([m EXCEPT !.state = "Recipient_provided"],
           <<ReplyText(550, rcpt_path(m.words[2]))>>, <<>>, 1, "ret")

\* the user directory rejects the path (lines 310-314)
rcpt_reject(m) ==
    Result(m, <<ReplyText(550, rcpt_path(m.words[2]))>>, <<>>, 1, "ret")

do_rcpt(m) ==
    IF Len(m.words) # 2
    THEN Result(m, <<syntax_error(m)>>, <<>>, 1, "ret")
    ELSE IF strncasecmp(m.words[2], S_TO, 4) # 0 \/ LastChar(m.words[2]) # ">"
    THEN Result(m, <<syntax_error(m)>>, <<>>, 1, "ret")
    ELSE IF ~(m.state = "Mail_transaction_open" \/ m.state = "Recipient_provided")
    THEN Result(m, <<Reply(503)>>, <<>>, 1, "ret")
    ELSE LET forward_path == rcpt_path(m.words[2])
         IN IF is_valid_user(forward_path)
            THEN Result([m EXCEPT !.forward_path_buffer =
                                      rcpt_add(m.forward_path_buffer, forward_path),
                                  !.state = "Recipient_provided"],
                        <<Event("add"), Event("state"), Reply(250)>>, <<>>, 0, "ret")
            ELSE rcpt_reject(m)

\* do_data up to its read loop (lines 327-349)
do_data(m) ==
    IF Len(m.words) # 1
    THEN Result(m, <<syntax_error(m)>>, <<>>, 1, "ret")
    ELSE IF m.state # "Recipient_provided"
    THEN Result(m, <<Reply(503)>>, <<>>, 1, "ret")
    ELSE Result([m EXCEPT !.state = "Data_input"],
                <<Event("state"), Reply(354)>>, <<>>, 0, "data")

\* the loop at lines 361-362 and 500-501: drop the trailing space characters
RECURSIVE Strip(_)
Strip(s) ==
    IF Len(s) > 0 /\ isspace(s[Len(s)])
    THEN Strip(SubSeq(s, 1, Len(s) - 1))
    ELSE s

\* strcmp(a, b): 0 when the strings are equal
strcmp(a, b) == IF a = b THEN 0 ELSE 1

\* the end of data with the buffers cleared before the mail is saved
data_done_clear_first(m) ==
    Result([clear_buffers(m) EXCEPT !.state = "Data_input_done"],
           <<Event("clear"), Event("save"), Event("state"), Reply(250)>>,
           <<[body |-> <<>>, rcpts |-> clear_buffers(m).forward_path_buffer]>>,
           0, "ret")

\* the end of data: the mail is saved, the buffers are cleared (lines 367-391)
data_done(m) ==
    Result([clear_buffers(m) EXCEPT !.state = "Data_input_done"],
           <<Event("save"), Event("clear"), Event("state"), Reply(250)>>,
           <<[body |-> IF m.mail_data_buffer # NULLSTR
                       THEN m.mail_data_buffer ELSE <<>>,
              rcpts |-> m.forward_path_buffer]>>,
           0, "ret")

\* One pass of do_data's read loop over a line of len > 0 (lines 360-426).
\* When the strip loop empties the line it reads recvbuf[len - 1] with
\* len = 0, a byte outside recvbuf; before_is_space is what that byte holds. If it
\* is a space the loop goes on to write outside recvbuf.
do_data_line(m, recvbuf, before_is_space) ==
    LET line == Strip(recvbuf)
        len == Len(line)
    IN IF len = 0 /\ before_is_space
       THEN Result(m, <<OOB>>, <<>>, 1, "crashed")
       ELSE IF strcmp(line, <<".">>) = 0
       THEN data_done(m)
       ELSE LET b == IF m.mail_data_buffer = NULLSTR
                     THEN line
                     ELSE IF len > 0 /\ line[1] = "."
                     THEN m.mail_data_buffer \o Tail(line)
                     ELSE m.mail_data_buffer \o line
            IN Result([m EXCEPT !.mail_data_buffer = b \o CRLF],
                      IF len = 0 THEN <<OOB, Event("append")>>
                      ELSE <<Event("append")>>,
                      <<>>, 0, "data")

do_noop(m) == Result(m, <<Reply(250)>>, <<>>, 0, "ret")

\* do_vrfy not asking the user directory
do_vrfy_always_250(m) ==
    IF Len(m.words) # 2
    THEN Result(m, <<syntax_error(m)>>, <<>>, 1, "ret")
    ELSE Result(m, <<ReplyText(250, m.words[2])>>, <<>>, 0, "ret")

do_vrfy(m) ==
    IF Len(m.words) # 2
    THEN Result(m, <<syntax_error(m)>>, <<>>, 1, "ret")
    ELSE IF is_valid_user(m.words[2])
    THEN Result(m, <<ReplyText(250, m.words[2])>>, <<>>, 0, "ret")
    ELSE Result(m, <<ReplyText(550, m.words[2])>>, <<>>, 0, "ret")

\* The dispatch chain of handle_client (lines 509-562) on the string command
\* points to. wok is whether send_formatted succeeds: the handlers' callers
\* look only at a return value of -1, which only do_quit produces; the two
\* replies handle_client sends itself are tested (lines 553, 560).
route(m, command, wok) ==
    IF strcasecmp(command, S_QUIT) = 0 THEN do_quit(m)
    ELSE IF strcasecmp(command, S_HELO) = 0 \/ strcasecmp(command, S_EHLO) = 0
    THEN do_helo(m)
    ELSE IF strcasecmp(command, S_MAIL) = 0 THEN do_mail(m)
    ELSE IF strcasecmp(command, S_RCPT) = 0 THEN do_rcpt(m)
    ELSE IF strcasecmp(command, S_DATA) = 0 THEN do_data(m)
    ELSE IF strcasecmp(command, S_RSET) = 0 THEN do_rset(m)
    ELSE IF strcasecmp(command, S_NOOP) = 0 THEN do_noop(m)
    ELSE IF strcasecmp(command, S_VRFY) = 0 THEN do_vrfy(m)
    ELSE IF strcasecmp(command, S_EXPN) = 0 \/ strcasecmp(command, S_HELP) = 0
    THEN Result(m, <<Reply(502)>>, <<>>, IF wok THEN 0 ELSE -1, "ret")
    ELSE Result(m, <<Reply(500)>>, <<>>, IF wok THEN 0 ELSE -1, "ret")

\* split() and the dispatch of a command line of one or more words w
\* (lines 505-507): words[0] is left pointing at the first word
dispatch(m0, w, wok) ==
    route([m0 EXCEPT !.words = w, !.word0 = w[1]], w[1], wok)

\* where handle_client is after a handler's result: a handler returning -1
\* breaks the loop, do_data blocked in its loop keeps reading body lines
After(r) ==
    IF r.at = "ret" THEN (IF r.ret = -1 THEN "closed" ELSE "cmd") ELSE r.at

(***************************************************************************)
(* Inputs: the command lines (as the words split() finds) and the lines    *)
(* of the DATA phase (as nb_read_line returns them).                       *)
(***************************************************************************)
Verbs == {S_QUIT, S_HELO, S_EHLO, S_MAIL, S_RCPT, S_DATA, S_RSET, S_NOOP,
          S_VRFY, S_EXPN, S_HELP,
          <<"m","a","i","l">>, <<"R","c","p","t">>, <<"d","a","t","a">>,
          <<"H","E","L">>, <<"X","Y","Z","Z","Y">>}

FromAddrs == {<<>>, <<"a">>, <<"x","y">>}
ToAddrs == {<<>>, <<"a">>, <<"b">>, <<"x">>, <<"a","b">>}

FromWords ==
    {S_FROM \o a \o <<">">> : a \in FromAddrs}
    \cup {<<"f","r","O","m",":","<","a",">">>, S_FROM \o <<"a">>,
          <<"F","R","O","M",":",">">>, <<"F","R","O","M","<","a",">">>}
ToWords ==
    {S_TO \o a \o <<">">> : a \in ToAddrs}
    \cup {<<"t","o",":","<","b",">">>, S_TO \o <<"a">>,
          <<"T","O",":",">">>, <<"T","O","<","a",">">>}
PlainWords == {<<"a">>, <<"x">>, <<">">>}

\* the argument words tried with a verb
ArgWords(v) ==
    IF v = S_MAIL THEN FromWords \cup {S_TO \o <<"a",">">>, <<"a">>}
    ELSE IF v = S_RCPT THEN ToWords \cup {S_FROM \o <<"a",">">>, <<"a">>}
    ELSE IF v = S_VRFY THEN PlainWords
    ELSE IF strcasecmp(v, S_MAIL) = 0 THEN {S_FROM \o <<"a",">">>}
    ELSE IF strcasecmp(v, S_RCPT) = 0 THEN {S_TO \o <<"b",">">>}
    ELSE {<<"a">>}

Commands ==
    {<<v>> : v \in Verbs}
    \cup UNION {{<<v, a>> : a \in ArgWords(v)} : v \in Verbs}
    \cup {<<v, S_FROM \o <<"a",">">>, <<"z">>>> : v \in {S_HELO, S_MAIL, S_RSET}}
    \cup {<<v, S_TO \o <<"a",">">>, <<"z">>>> : v \in {S_RCPT, S_DATA, S_VRFY}}

\* the command lines whose reply is also tried with a failing write
FailCommands ==
    {<<v>> : v \in Verbs}
    \cup {<<S_HELO, <<"a">>>>, <<S_MAIL, S_FROM \o <<"a",">">>>>,
          <<S_RCPT, S_TO \o <<"a",">">>>>, <<S_RCPT, S_TO \o <<"x",">">>>>,
          <<S_VRFY, <<"a">>>>}

DataTexts == {<<>>, <<"a">>, <<".">>, <<".","a">>, <<".",".">>, <<"."," ">>, <<"a"," ">>}
DataLines == {t \o CRLF : t \in DataTexts}

\* the reply codes among the events o, in order
RECURSIVE Codes(_)
Codes(o) ==
    IF o = <<>> THEN <<>>
    ELSE IF Head(o).ev = "reply" THEN <<Head(o).code>> \o Codes(Tail(o))
    ELSE Codes(Tail(o))

Answered(o, code) == \E i \in 1..Len(o) : o[i] = Reply(code)

\* what an argument word holds between its first "<" and its last character
Enclosed(w) ==
    LET lt == CHOOSE i \in 1..Len(w) : w[i] = "<" /\ \A j \in 1..(i - 1) : w[j] # "<"
    IN SubSeq(w, lt + 1, Len(w) - 1)

\* the states in which a mail transaction is open
InTransaction == {"Mail_transaction_open", "Recipient_provided", "Data_input"}

\* the part of the struct a command can change
Snap(m) == [state |-> m.state,
            reverse_path_buffer |-> m.reverse_path_buffer,
            forward_path_buffer |-> m.forward_path_buffer,
            mail_data_buffer |-> m.mail_data_buffer]

(***************************************************************************)
(* The session.                                                            *)
(***************************************************************************)
\* handle_client up to its loop (lines 472-481): the greeting is written, and
\* handle_client returns if the write fails
Init ==
    /\ ms = [state |-> "Init",
             reverse_path_buffer |-> UNINIT,
             forward_path_buffer |-> UNINIT,
             mail_data_buffer |-> UNINITSTR,
             words |-> <<>>,
             word0 |-> UNINITSTR]
    /\ sent \in BOOLEAN
    /\ pc = IF sent THEN "cmd" ELSE "closed"
    /\ stream = "open"
    /\ pre = Snap(ms)
    /\ step = "greet"
    /\ out = <<Reply(220)>>
    /\ store = <<>>
    /\ datalines = <<>>
    /\ accepted = <<>>

\* one pass of handle_client's loop over a command line of words w
Command(w, wok) ==
    /\ pc = "cmd"
    /\ stream = "open"
    /\ sent' = wok
    /\ \E r \in {dispatch(ms, w, wok)} :
          /\ Len(r.ms.forward_path_buffer) <= MaxRcpts
          /\ ms' = r.ms
          /\ pc' = After(r)
          /\ out' = r.out
          /\ store' = r.store
          /\ accepted' = IF r.ms.state \notin InTransaction THEN <<>>
                         ELSE IF ~Answered(r.out, 250) THEN accepted
                         ELSE IF strcasecmp(w[1], S_MAIL) = 0 THEN <<>>
                         ELSE IF strcasecmp(w[1], S_RCPT) = 0
                         THEN Append(accepted, Enclosed(w[2]))
                         ELSE accepted
    /\ pre' = Snap(ms)
    /\ step' = "cmd"
    /\ datalines' = <<>>
    /\ UNCHANGED stream

\* One pass of handle_client's loop over a command line without words (only
\* space characters before its newline). The strip loop (lines 500-501)
\* empties the line and then reads recvbuf[len - 1] with len = 0: if that byte
\* is a space it writes outside recvbuf. split() finds no word, so command
\* (line 507) is what words[0] was left as: nothing before the first command,
\* and afterwards a pointer into recvbuf, where the first word of an earlier
\* line may have survived ("stale") or been overwritten ("empty"); a null or
\* wild pointer ends the process ("crash").
EmptyCommand(word, before_is_space, wok) ==
    /\ pc = "cmd"
    /\ stream = "open"
    /\ word \in {"crash", "empty"} \/ (word = "stale" /\ ms.word0 # UNINITSTR)
    /\ sent' = wok
    /\ \E r \in {IF before_is_space \/ word = "crash"
                  THEN Result([ms EXCEPT !.words = <<>>], <<>>, <<>>, 1, "crashed")
                  ELSE route([ms EXCEPT !.words = <<>>],
                             IF word = "stale" THEN ms.word0 ELSE <<>>, wok)} :
          /\ ms' = r.ms
          /\ pc' = After(r)
          /\ out' = IF before_is_space THEN <<OOB>>
                    ELSE <<OOB, Event("read_words0")>> \o r.out
          /\ store' = r.store
          /\ r.out = <<>> => wok
          /\ accepted' = IF r.ms.state \notin InTransaction THEN <<>> ELSE accepted
    /\ pre' = Snap(ms)
    /\ step' = "cmd"
    /\ datalines' = <<>>
    /\ UNCHANGED stream

\* a command line that is too long or holds a null byte (lines 486-497)
BadLine(wok) ==
    /\ pc = "cmd"
    /\ stream = "open"
    /\ sent' = wok
    /\ pc' = "closed"
    /\ out' = <<Reply(500)>>
    /\ store' = <<>>
    /\ pre' = Snap(ms)
    /\ step' = "bad"
    /\ UNCHANGED <<ms, stream, datalines, accepted>>

\* nb_read_line returns 0 (end of stream) or -1 (error) at line 483. len is
\* a size_t, so the loop is entered and line 486 reads recvbuf[len - 1], a
\* byte outside recvbuf; before_is_nl is whether that byte is a newline. With
\* len = 0 and a newline there, the strip loop writes outside recvbuf.
CommandEnd(kind, before_is_nl, wok) ==
    /\ pc = "cmd"
    /\ stream = "open"
    /\ stream' = kind
    /\ sent' = wok
    /\ IF before_is_nl /\ kind = "eof"
       THEN pc' = "crashed" /\ out' = <<OOB>> /\ wok
       ELSE pc' = "closed" /\ out' = <<OOB, Reply(500)>>
    /\ store' = <<>>
    /\ pre' = Snap(ms)
    /\ step' = "end"
    /\ UNCHANGED <<ms, datalines, accepted>>

\* one pass of do_data's loop over a line of the stream
DataLine(recvbuf, before_is_space, wok) ==
    /\ pc = "data"
    /\ stream = "open"
    /\ sent' = wok
    /\ Len(datalines) < MaxBodyLines \/ Strip(recvbuf) = <<".">>
    /\ \E r \in {do_data_line(ms, recvbuf, before_is_space)} :
          /\ ms' = r.ms
          /\ pc' = After(r)
          /\ out' = r.out
          /\ store' = r.store
          /\ datalines' = IF r.at = "data"
                          THEN Append(datalines, Strip(recvbuf))
                          ELSE datalines
          /\ Codes(r.out) = <<>> => wok
    /\ pre' = Snap(ms)
    /\ step' = "line"
    /\ UNCHANGED <<stream, accepted>>

\* nb_read_line returns 0 inside do_data: len == 0, the loop continues
\* (lines 353-358) and reads again
DataEof ==
    /\ pc = "data"
    /\ stream \in {"open", "eof"}
    /\ stream' = "eof"
    /\ sent' = TRUE
    /\ out' = <<>>
    /\ store' = <<>>
    /\ pre' = Snap(ms)
    /\ step' = "eof"
    /\ UNCHANGED <<ms, pc, datalines, accepted>>

\* nb_read_line returns -1 inside do_data: len is a size_t, so the loop is
\* entered with len = SIZE_MAX, line 361 reads outside recvbuf and the
\* allocations at lines 397-415 are too small for what is copied into them.
\* The process either dies or stays in the loop; the stream delivers nothing
\* more.
DataErr(dies) ==
    /\ pc = "data"
    /\ stream \in {"open", "err"}
    /\ stream' = "err"
    /\ pc' = IF dies THEN "crashed" ELSE "data"
    /\ sent' = TRUE
    /\ out' = <<>>
    /\ store' = <<>>
    /\ pre' = Snap(ms)
    /\ step' = "err"
    /\ UNCHANGED <<ms, datalines, accepted>>

Next ==
    \/ \E w \in Commands : Command(w, TRUE)
    \/ \E w \in FailCommands : Command(w, FALSE)
    \/ \E word \in {"crash", "empty", "stale"}, sp \in BOOLEAN, wok \in BOOLEAN :
          EmptyCommand(word, sp, wok)
    \/ \E wok \in BOOLEAN : BadLine(wok)
    \/ \E kind \in {"eof", "err"}, nl \in BOOLEAN, wok \in BOOLEAN :
          CommandEnd(kind, nl, wok)
    \/ \E l \in DataLines, sp \in BOOLEAN, wok \in BOOLEAN : DataLine(l, sp, wok)
    \/ DataEof
    \/ \E dies \in BOOLEAN : DataErr(dies)

Spec == Init /\ [][Next]_vars

TypeOK ==
    /\ ms.state \in State
    /\ pc \in {"cmd", "data", "closed", "crashed"}
    /\ stream \in {"open", "eof", "err"}
    /\ pc = "data" <=> (ms.state = "Data_input" /\ pc # "crashed")

(***************************************************************************)
(* Vocabulary of the properties.                                           *)
(***************************************************************************)
\* the last step dispatched a command line whose verb is v (up to case)
Dispatched(v) == step = "cmd" /\ Len(ms.words) > 0 /\ strcasecmp(ms.words[1], v) = 0
DispatchedHelo == Dispatched(S_HELO) \/ Dispatched(S_EHLO)
nwords == Len(ms.words)

\* exactly one argument word, of the form prefix ... ">"
WellFormedPath(prefix) ==
    /\ nwords = 2
    /\ Len(ms.words[2]) > Len(prefix)
    /\ \A i \in 1..Len(prefix) : toupper(ms.words[2][i]) = prefix[i]
    /\ ms.words[2][Len(ms.words[2])] = ">"

\* the last step left state and the three buffers as they were
Untouched == Snap(ms) = pre
\* the three buffers are empty
BuffersEmpty ==
    /\ ms.reverse_path_buffer = NULL
    /\ ms.forward_path_buffer = NULL
    /\ ms.mail_data_buffer = NULLSTR
\* the last step read the terminator line of a DATA phase
EndOfData == step = "line" /\ pre.state = "Data_input" /\ ms.state = "Data_input_done"

MailStates == {"Executed_Helo", "Data_input_done"}
RcptStates == {"Mail_transaction_open", "Recipient_provided"}

(***************************************************************************)
(* C1: a well-formed HELO/EHLO, MAIL, RCPT or DATA dispatched outside the  *)
(* states its verb requires is answered 503 and leaves state,              *)
(* reversePath, recipients and messageBody unchanged.                      *)
(***************************************************************************)
C1_OutOfSequence ==
    \/ DispatchedHelo /\ nwords = 2 /\ pre.state # "Init"
    \/ Dispatched(S_MAIL) /\ WellFormedPath(S_FROM) /\ pre.state \notin MailStates
    \/ Dispatched(S_RCPT) /\ WellFormedPath(S_TO) /\ pre.state \notin RcptStates
    \/ Dispatched(S_DATA) /\ nwords = 1 /\ pre.state # "Recipient_provided"

C1_BadSequenceIs503 ==
    C1_OutOfSequence => Codes(out) = <<503>> /\ Untouched /\ pc = "cmd"

C1_Witness ==
    /\ Dispatched(S_MAIL) /\ WellFormedPath(S_FROM)
    /\ pre.state = "Recipient_provided"
    /\ Len(pre.forward_path_buffer) = 2
    /\ Codes(out) = <<503>>

(***************************************************************************)
(* C2: the body handed to the mail store at the terminator is, for the     *)
(* body lines read in order, each line with one leading "." removed if it  *)
(* has one, followed by CRLF; empty when the first line is the terminator. *)
(***************************************************************************)
unstuff(line) == IF Len(line) > 0 /\ line[1] = "." THEN Tail(line) ELSE line

RECURSIVE Unstuffed(_)
Unstuffed(lines) ==
    IF lines = <<>> THEN <<>>
    ELSE unstuff(Head(lines)) \o CRLF \o Unstuffed(Tail(lines))

C2_BodyIsUnstuffedLines ==
    EndOfData => Len(store) = 1 /\ store[1].body = Unstuffed(datalines)

(***************************************************************************)
(* C3: at the terminator the body and the whole recipient list are handed  *)
(* to the mail store, then the three buffers are cleared, then state       *)
(* becomes Data_input_done, then 250 is sent; the recipients handed over   *)
(* are those the RCPT commands of this transaction were answered 250 for.  *)
(***************************************************************************)
C3_HandOffOrder ==
    EndOfData =>
        /\ out = <<Event("save"), Event("clear"), Event("state"), Reply(250)>>
        /\ Len(store) = 1
        /\ store[1].rcpts = pre.forward_path_buffer
        /\ store[1].rcpts = accepted
        /\ store[1].body = IF pre.mail_data_buffer = NULLSTR
                           THEN <<>> ELSE pre.mail_data_buffer
        /\ BuffersEmpty
        /\ pc = "cmd"

C3_Witness ==
    /\ EndOfData
    /\ Len(store) = 1
    /\ store[1].rcpts = <<<<"b">>, <<"a">>>>
    /\ Len(datalines) = 2
    /\ out[1] = Event("save")

(***************************************************************************)
(* C4: when the read fails or the stream ends inside the DATA phase, the   *)
(* read loop stops, a failure reply is sent, nothing is handed to the mail *)
(* store and the session is over.                                          *)
(***************************************************************************)
C4_StreamEndStopsData ==
    (step \in {"eof", "err"} /\ pre.state = "Data_input") =>
        /\ pc = "closed"
        /\ Len(Codes(out)) = 1 /\ Codes(out)[1] >= 400
        /\ store = <<>>

(***************************************************************************)
(* C5: a command with the wrong argument count or shape, dispatched        *)
(* outside the states its verb requires, leaves state and buffers          *)
(* unchanged. As claimed: MAIL and RCPT answer 501, HELO/EHLO and DATA     *)
(* answer 503. As amended: all four answer 501.                            *)
(***************************************************************************)
C5_HeloMisuse == DispatchedHelo /\ nwords # 2 /\ pre.state # "Init"
C5_DataMisuse == Dispatched(S_DATA) /\ nwords # 1 /\ pre.state # "Recipient_provided"
C5_MailMisuse ==
    Dispatched(S_MAIL) /\ ~WellFormedPath(S_FROM) /\ pre.state \notin MailStates
C5_RcptMisuse ==
    Dispatched(S_RCPT) /\ ~WellFormedPath(S_TO) /\ pre.state \notin RcptStates

C5_Original ==
    /\ (C5_MailMisuse \/ C5_RcptMisuse) => Codes(out) = <<501>> /\ Untouched
    /\ (C5_HeloMisuse \/ C5_DataMisuse) => Codes(out) = <<503>> /\ Untouched

C5_SyntaxFirst ==
    (C5_MailMisuse \/ C5_RcptMisuse \/ C5_HeloMisuse \/ C5_DataMisuse)
        => Codes(out) = <<501>> /\ Untouched /\ pc = "cmd"

C5_Witness ==
    /\ C5_HeloMisuse
    /\ pre.state = "Recipient_provided"
    /\ Codes(out) = <<501>>

(***************************************************************************)
(* C6: MAIL is answered 250 only from Executed_Helo or Data_input_done;    *)
(* after it state is Mail_transaction_open, recipients is empty, the body  *)
(* is absent and reversePath holds exactly the path of this MAIL.          *)
(***************************************************************************)
C6_MailOpensTransaction ==
    /\ (Dispatched(S_MAIL) /\ (Answered(out, 250) \/ ms.state # pre.state)) =>
          /\ pre.state \in MailStates
          /\ Codes(out) = <<250>>
          /\ ms.state = "Mail_transaction_open"
          /\ ms.forward_path_buffer = NULL
          /\ ms.mail_data_buffer = NULLSTR
          /\ ms.reverse_path_buffer = <<Enclosed(ms.words[2])>>
    /\ (Dispatched(S_MAIL) /\ WellFormedPath(S_FROM) /\ pre.state \in MailStates)
          => Answered(out, 250)

C6_Witness ==
    /\ Dispatched(S_MAIL)
    /\ pre.state = "Data_input_done"
    /\ Answered(out, 250)
    /\ ms.reverse_path_buffer = <<<<"x", "y">>>>

(***************************************************************************)
(* C7: inside a transaction the recipients buffer is the sequence of the   *)
(* paths of the RCPT commands answered 250, in the order they were         *)
(* accepted, duplicates kept.                                              *)
(***************************************************************************)
C7_RecipientsInOrder ==
    /\ ms.state \in RcptStates \cup {"Data_input"}
          => ms.forward_path_buffer = accepted
    /\ (Dispatched(S_RCPT) /\ Answered(out, 250))
          => ms.forward_path_buffer
                = Append(pre.forward_path_buffer, Enclosed(ms.words[2]))

C7_Witness ==
    /\ Dispatched(S_RCPT) /\ Answered(out, 250)
    /\ ms.forward_path_buffer = <<<<"a">>, <<"a">>>>

(***************************************************************************)
(* C8: a well-formed RCPT in Mail_transaction_open or Recipient_provided   *)
(* whose path the user directory rejects is answered 550, leaves state,    *)
(* recipients and reversePath as they were, and the session stays open: a  *)
(* valid RCPT dispatched next is answered 250.                             *)
(***************************************************************************)
C8_Rejected ==
    /\ Dispatched(S_RCPT) /\ WellFormedPath(S_TO)
    /\ pre.state \in RcptStates
    /\ ~is_valid_user(Enclosed(ms.words[2]))

C8_RejectedRcptKeepsState ==
    C8_Rejected =>
        /\ Codes(out) = <<550>>
        /\ Untouched
        /\ pc = "cmd"
        /\ LET r == dispatch(ms, <<S_RCPT, S_TO \o <<"a", ">">>>>, TRUE)
           IN /\ Codes(r.out) = <<250>>
              /\ r.ms.state = "Recipient_provided"
              /\ r.ms.forward_path_buffer = Append(pre.forward_path_buffer, <<"a">>)

C8_Witness ==
    /\ C8_Rejected
    /\ pre.state = "Mail_transaction_open"
    /\ ms.state = "Mail_transaction_open"
    /\ Codes(out) = <<550>>

(***************************************************************************)
(* C9: as claimed, HELO/EHLO succeeds if and only if the state is Init. As *)
(* amended: HELO/EHLO with exactly one argument word succeeds if and only  *)
(* if the state is Init (any other argument count is answered 501 in every *)
(* state). After a success state is Executed_Helo and the three buffers    *)
(* are empty, and no step leads back to Init, so a later HELO/EHLO is      *)
(* rejected.                                                               *)
(***************************************************************************)
C9_HeloSucceeded == Answered(out, 250) /\ ms.state = "Executed_Helo" /\ BuffersEmpty

C9_Original ==
    /\ DispatchedHelo => (C9_HeloSucceeded <=> pre.state = "Init")
    /\ DispatchedHelo /\ pre.state # "Init" => Untouched /\ ~Answered(out, 250)
    /\ pre.state # "Init" => ms.state # "Init"

C9_HeloOnlyInInit ==
    /\ DispatchedHelo /\ nwords = 2 => (C9_HeloSucceeded <=> pre.state = "Init")
    /\ DispatchedHelo /\ nwords # 2 => Codes(out) = <<501>> /\ Untouched
    /\ DispatchedHelo /\ pre.state # "Init" => Untouched /\ ~Answered(out, 250)
    /\ pre.state # "Init" => ms.state # "Init"

C9_Witness ==
    /\ Dispatched(S_EHLO) /\ nwords = 2
    /\ pre.state = "Init"
    /\ C9_HeloSucceeded

(***************************************************************************)
(* C10: RSET without arguments outside Init clears the three buffers and   *)
(* sets state to Executed_Helo; in Init it leaves state at Init; both are  *)
(* answered 250 and the session stays open.                                *)
(***************************************************************************)
C10_RsetResets ==
    (Dispatched(S_RSET) /\ nwords = 1) =>
        /\ Codes(out) = <<250>>
        /\ pc = "cmd"
        /\ IF pre.state = "Init"
           THEN Untouched
           ELSE ms.state = "Executed_Helo" /\ BuffersEmpty

C10_Witness ==
    /\ Dispatched(S_RSET) /\ nwords = 1
    /\ pre.state = "Recipient_provided"
    /\ Len(pre.forward_path_buffer) = 2
    /\ ms.state = "Executed_Helo" /\ BuffersEmpty

(***************************************************************************)
(* C11: a dispatched QUIT, in any state and with any arguments, is         *)
(* answered 221 and ends the session: no step follows, so no later command *)
(* line is dispatched and no reply is sent after the 221.                  *)
(***************************************************************************)
C11_QuitEndsSession ==
    /\ [](Dispatched(S_QUIT) => Codes(out) = <<221>> /\ pc = "closed" /\ Untouched)
    /\ [][pc # "closed"]_vars

C11_Witness ==
    /\ Dispatched(S_QUIT) /\ nwords = 2
    /\ pre.state = "Recipient_provided"
    /\ Codes(out) = <<221>>
    /\ pc = "closed"

(***************************************************************************)
(* C12: when the write of a reply fails, the session is over: nothing more *)
(* is read, dispatched or written.                                         *)
(***************************************************************************)
C12_WriteFailureEndsSession ==
    (~sent /\ Codes(out) # <<>>) => pc = "closed"

(***************************************************************************)
(* C13: a command line without words is answered 500, leaves state and     *)
(* buffers unchanged, keeps the session open, and the dispatcher does not  *)
(* read a first word that does not exist.                                  *)
(***************************************************************************)
C13_EmptyLineIsUnrecognized ==
    (step = "cmd" /\ nwords = 0) =>
        /\ Codes(out) = <<500>>
        /\ Untouched
        /\ pc = "cmd"
        /\ \A i \in 1..Len(out) : out[i] # Event("read_words0")

(***************************************************************************)
(* C14: for an argument word FROM:<addr> given to MAIL and TO:<addr> given *)
(* to RCPT (prefix up to case) the path extracted is addr, the empty addr  *)
(* included; a word shorter than prefix plus ">" (7 and 5 characters) is   *)
(* answered 501, and the length computed for the path is never negative.   *)
(***************************************************************************)
\* the path the last RCPT extracted, seen in the buffer (250) or in the reply (550)
C14_RcptExtracted ==
    IF Answered(out, 250)
    THEN ms.forward_path_buffer[Len(ms.forward_path_buffer)]
    ELSE out[1].text

C14_PathRoundTrip ==
    /\ (Dispatched(S_MAIL) /\ nwords = 2) =>
          LET w == ms.words[2]
          IN /\ Len(w) < 7 => Codes(out) = <<501>>
             /\ WellFormedPath(S_FROM) <=> Codes(out) # <<501>>
             /\ Codes(out) # <<501>> => Len(w) - 7 >= 0
             /\ Answered(out, 250) =>
                   /\ Len(ms.reverse_path_buffer) = 1
                   /\ SubSeq(w, 1, 6) \o ms.reverse_path_buffer[1] \o <<">">> = w
    /\ (Dispatched(S_RCPT) /\ nwords = 2) =>
          LET w == ms.words[2]
          IN /\ Len(w) < 5 => Codes(out) = <<501>>
             /\ WellFormedPath(S_TO) <=> Codes(out) # <<501>>
             /\ Codes(out) # <<501>> => Len(w) - 5 >= 0
             /\ Codes(out) \in {<<250>>, <<550>>} =>
                   SubSeq(w, 1, 4) \o C14_RcptExtracted \o <<">">> = w

C14_Witness ==
    /\ Dispatched(S_MAIL) /\ nwords = 2
    /\ ms.words[2] = S_FROM \o <<">">>
    /\ Answered(out, 250)
    /\ ms.reverse_path_buffer = <<<<>>>>

(***************************************************************************)
(* C15: VRFY, NOOP, EXPN, HELP and unrecognized verbs leave state and the  *)
(* three buffers unchanged in every state; VRFY with one argument answers  *)
(* 250 with the address when the user directory accepts it and 550 when it *)
(* does not, NOOP answers 250, EXPN and HELP 502, an unrecognized verb 500.*)
(***************************************************************************)
C15_Known == {S_QUIT, S_HELO, S_EHLO, S_MAIL, S_RCPT, S_DATA, S_RSET, S_NOOP,
              S_VRFY, S_EXPN, S_HELP}
C15_Unrecognized ==
    step = "cmd" /\ nwords > 0 /\ \A v \in C15_Known : strcasecmp(ms.words[1], v) # 0

C15_QueriesChangeNothing ==
    /\ Dispatched(S_NOOP) => Codes(out) = <<250>> /\ Untouched /\ pc = "cmd"
    /\ Dispatched(S_VRFY) => Untouched /\ pc = "cmd"
    /\ (Dispatched(S_VRFY) /\ nwords = 2) =>
          out = <<ReplyText(IF ms.words[2] \in Users THEN 250 ELSE 550, ms.words[2])>>
    /\ (Dispatched(S_EXPN) \/ Dispatched(S_HELP)) => Codes(out) = <<502>> /\ Untouched
    /\ C15_Unrecognized => Codes(out) = <<500>> /\ Untouched

C15_Witness ==
    /\ Dispatched(S_VRFY)
    /\ pre.state = "Recipient_provided"
    /\ out = <<ReplyText(250, <<"a">>)>>
    /\ ms.state = "Recipient_provided"

(***************************************************************************)
(* C16: every dispatched command line produces exactly one reply, except   *)
(* an accepted DATA: 354, then nothing for a body line, then exactly one   *)
(* final reply (250 after the terminator, or a failure reply); no reply is *)
(* sent that no command line (or the greeting) caused.                     *)
(***************************************************************************)
C16_OneReplyPerCommand ==
    /\ step = "greet" => Codes(out) = <<220>>
    /\ step \in {"cmd", "bad"} =>
          IF ms.state = "Data_input" THEN Codes(out) = <<354>> ELSE Len(Codes(out)) = 1
    /\ step = "line" => Codes(out) = IF EndOfData THEN <<250>> ELSE <<>>
    /\ (step \in {"eof", "err"} /\ pre.state = "Data_input") =>
          Len(Codes(out)) = 1 /\ Codes(out)[1] >= 400
    /\ step = "end" => Codes(out) = <<>>

(***************************************************************************)
(* C17: in every state of the session recipients is non-empty only if      *)
(* reversePath is present, and both are non-empty only in                  *)
(* Mail_transaction_open, Recipient_provided or Data_input.                *)
(***************************************************************************)
\* the buffer holds a list (before HELO the session holds none)
Present(list) == list # NULL /\ list # UNINIT

C17_RecipientsNeedSender ==
    /\ Present(ms.forward_path_buffer) => Present(ms.reverse_path_buffer)
    /\ (Present(ms.forward_path_buffer) /\ Present(ms.reverse_path_buffer))
          => ms.state \in InTransaction

C17_Witness ==
    /\ ms.state = "Data_input"
    /\ Len(ms.forward_path_buffer) = 2
    /\ ms.reverse_path_buffer = <<<<"x", "y">>>>

(***************************************************************************)
(* C18: the message body is present only in Data_input or Data_input_done, *)
(* and every clearing point (the end of DATA, RSET outside Init, the reset *)
(* of a successful MAIL) leaves reversePath, recipients and body absent    *)
(* together.                                                               *)
(***************************************************************************)
C18_Cleared == \E i \in 1..Len(out) : out[i] = Event("clear")

C18_BodyOnlyInData ==
    /\ ms.mail_data_buffer \notin {NULLSTR, UNINITSTR}
          => ms.state \in {"Data_input", "Data_input_done"}
    /\ (C18_Cleared /\ ~Dispatched(S_MAIL)) => BuffersEmpty
    /\ (C18_Cleared /\ Dispatched(S_MAIL)) =>
          /\ ms.forward_path_buffer = NULL
          /\ ms.mail_data_buffer = NULLSTR
          /\ ms.reverse_path_buffer = <<mail_path(ms.words[2])>>
    /\ (EndOfData \/ (Dispatched(S_RSET) /\ nwords = 1 /\ pre.state # "Init")
         \/ (Dispatched(S_MAIL) /\ Answered(out, 250))) => C18_Cleared
    /\ ms.state # "Init" =>
          LET c == clear_buffers(ms)
          IN /\ c.reverse_path_buffer = NULL
             /\ c.forward_path_buffer = NULL
             /\ c.mail_data_buffer = NULLSTR

C18_Witness ==
    /\ EndOfData
    /\ pre.mail_data_buffer = <<".", "a">> \o CRLF \o <<"a">> \o CRLF
    /\ Present(pre.forward_path_buffer)
    /\ BuffersEmpty

(***************************************************************************)
(* C19: the three buffer pointers are unassigned until a successful        *)
(* HELO/EHLO, and while state is Init clear_buffers is not called and no   *)
(* buffer is read, so no handler frees or reads an unassigned pointer.     *)
(***************************************************************************)
C19_UsesBuffer(e) == e.ev \in {"clear", "save", "add", "append"}

C19_NoBufferUseInInit ==
    /\ ms.state = "Init" =>
          /\ ms.reverse_path_buffer = UNINIT
          /\ ms.forward_path_buffer = UNINIT
          /\ ms.mail_data_buffer = UNINITSTR
    /\ ms.state # "Init" =>
          /\ ms.reverse_path_buffer # UNINIT
          /\ ms.forward_path_buffer # UNINIT
          /\ ms.mail_data_buffer # UNINITSTR
    /\ pre.state = "Init" => \A i \in 1..Len(out) : ~C19_UsesBuffer(out[i])

C19_Witness ==
    /\ Dispatched(S_RSET) /\ nwords = 1
    /\ pre.state = "Init"
    /\ Codes(out) = <<250>>
    /\ ms.reverse_path_buffer = UNINIT

(***************************************************************************)
(* C20: in the DATA phase the strip loop does not read recvbuf[len - 1]    *)
(* with len = 0, for a blank line either, and a blank line is appended to  *)
(* the body as an empty line followed by CRLF.                             *)
(***************************************************************************)
C20_StripStaysInBuffer ==
    step = "line" =>
        /\ \A i \in 1..Len(out) : out[i] # OOB
        /\ pc # "crashed"

====
